---- MODULE Spec2Model ----
(***************************************************************************)
(* A model of the writers-corner scripts.                                  *)
(*                                                                         *)
(*   scripts/excel_to_markdown.py : main -> parse_scenes ->                *)
(*       generate_markdown_content -> add_metadata / write_markdown        *)
(*   scripts/common_words.py      : read_csv_files                         *)
(*                                                                         *)
(* Text is modelled as a sequence of one-character strings wherever the    *)
(* code splits, strips or joins it (locations, tags, csv counts); cells    *)
(* that are only formatted into the output are atoms.  A document is the   *)
(* sequence of its lines, each line a tuple <<kind>> or <<kind, payload>>. *)
(* The run modelled is one without --generate_metrics.                     *)
(***************************************************************************)
EXTENDS Integers, Sequences, FiniteSets, TLC

(***************************************************************************)
(* Bounds of the model.                                                    *)
(***************************************************************************)
\* longest input sheet, in rows
MaxRows == 3
\* longest location string of the exhaustive location runs, in pieces
MaxPieces == 4
\* longest --tags value of the exhaustive tag runs, in characters
MaxTagLen == 3
\* most files in the folder of csv files
MaxFiles == 2
\* most rows in the folder of csv files, over all its files
MaxCsvRows == 3
\* longest count cell of the exhaustive count runs, in characters
MaxCountLen == 3

(***************************************************************************)
(* Python's str operations, on sequences of characters.                    *)
(***************************************************************************)
\* s[a..b] (1-based, inclusive), empty when a > b
Slice(s, a, b) == [k \in 1..(b - a + 1) |-> s[a + k - 1]]

\* sep occurs in s at position k
OccursAt(s, sep, k) ==
    /\ k >= 1
    /\ k + Len(sep) - 1 <= Len(s)
    /\ \A m \in 1..Len(sep) : s[k + m - 1] = sep[m]

\* str.find, 1-based; 0 when sep does not occur
Find(s, sep) ==
    IF \E k \in 1..Len(s) : OccursAt(s, sep, k)
    THEN CHOOSE k \in 1..Len(s) :
            /\ OccursAt(s, sep, k)
            /\ \A m \in 1..(k - 1) : ~OccursAt(s, sep, m)
    ELSE 0

\* str.split(sep), sep non-empty: cut at each occurrence, scanning from the left
RECURSIVE Split(_, _)
Split(s, sep) ==
    LET k == Find(s, sep) IN
    IF k = 0 THEN <<s>>
    ELSE <<Slice(s, 1, k - 1)>> \o Split(Slice(s, k + Len(sep), Len(s)), sep)

\* sep.join(list)
RECURSIVE Join(_, _)
Join(list, sep) ==
    IF Len(list) = 0 THEN <<>>
    ELSE IF Len(list) = 1 THEN list[1]
    ELSE list[1] \o sep \o Join(Tail(list), sep)

\* str.strip(): leading and trailing blanks removed
RECURSIVE Strip(_)
Strip(s) ==
    IF Len(s) = 0 THEN s
    ELSE IF s[1] = " " THEN Strip(Tail(s))
    ELSE IF s[Len(s)] = " " THEN Strip(Slice(s, 1, Len(s) - 1))
    ELSE s

\* the separators of the code
DotSpace == <<".", " ">>
SpaceDashSpace == <<" ", "-", " ">>
CommaSpace == <<",", " ">>
Comma == <<",">>

(***************************************************************************)
(* Cell values.                                                            *)
(***************************************************************************)
\* A blank spreadsheet cell is read as the float NaN, which has no .split
NaN == <<"NaN">>

\* A chapter key: the cell's type and its text.  Keys of different types
\* are different dict keys, and f"{key}" is the text.
Key(ty, txt) == [ty |-> ty, txt |-> txt]
Fmt(key) == key.txt

Keys == {Key("str", "1"), Key("str", "2"), Key("int", "1")}

\* "F - C, R" stands for "Forest - Clearing, River"
Forest == <<"F", " ", "-", " ", "C", ",", " ", "R">>

Variants == 1..2
PovOf(v) == IF v = 1 THEN "pov1" ELSE "pov2"
TempOf(v) == IF v = 1 THEN "temp1" ELSE "temp2"
ArcOf(v) == IF v = 1 THEN "arc1" ELSE "arc2"
WeekOf(v) == IF v = 1 THEN "week1" ELSE "week2"
DayOf(v) == IF v = 1 THEN "day1" ELSE "day2"
TimeOf(v) == IF v = 1 THEN "time1" ELSE "time2"
WeatherOf(v) == IF v = 1 THEN "weather1" ELSE "weather2"
UniformOf(v) == IF v = 1 THEN "uniform1" ELSE "uniform2"
DescOf(v) == IF v = 1 THEN "desc1" ELSE "desc2"

\* one row record of the sheet
Row(ch, loc, v) ==
    [Week |-> WeekOf(v), Arc |-> ArcOf(v), Chapter |-> ch, Location |-> loc,
     Uniform |-> UniformOf(v), Time |-> TimeOf(v), Weather |-> WeatherOf(v),
     Day |-> DayOf(v), Description |-> DescOf(v), POV |-> PovOf(v),
     Temperature |-> TempOf(v)]

\* the rows of the pipeline runs
RowSet ==
    {Row(Key("str", "1"), Forest, v) : v \in Variants}
    \cup {Row(Key("str", "2"), Forest, v) : v \in Variants}
    \cup {Row(Key("str", "2"), NaN, 1), Row(Key("int", "1"), Forest, 1)}

\* the location strings of the exhaustive location runs: every concatenation
\* of at most MaxPieces pieces
Pieces == {<<"a">>, <<"b">>, <<" ">>, <<".">>, DotSpace, SpaceDashSpace, CommaSpace}

RECURSIVE Concats(_)
Concats(n) ==
    IF n = 0 THEN {<<>>}
    ELSE LET shorter == Concats(n - 1) IN
         shorter \cup {s \o p : s \in shorter, p \in Pieces}

LocStrings == Concats(MaxPieces)

\* an optional command-line value
Absent == [present |-> FALSE, value |-> <<>>]
Given(v) == [present |-> TRUE, value |-> v]

TagChars == {"a", "b", ",", " "}
RECURSIVE TagStrings(_)
TagStrings(n) ==
    IF n = 0 THEN {<<>>}
    ELSE LET shorter == TagStrings(n - 1) IN
         shorter \cup {s \o <<c>> : s \in shorter, c \in TagChars}

\* "a, b"
TagsAB == <<"a", ",", " ", "b">>

SeqsUpTo(S, n) == UNION {[1..m -> S] : m \in 0..n}

(***************************************************************************)
(* State.                                                                  *)
(***************************************************************************)
VARIABLES
    pc,                \* position of the run
    rows,              \* df: the rows of the sheet, in order
    am,                \* args.add_metadata
    tagArg,            \* the --tags value on the command line, if any
    tags,              \* args.tags: None (not present) or a list
    idx,               \* rows of df that parse_scenes has consumed
    chapters,          \* parse_scenes' dict: [order, data]
    ret,               \* what main's `chapters` is bound to: "unset", "dict", "None"
    ci,                \* chapters of chapters.items() already visited
    chapter_key,       \* generate_markdown_content's chapter_key
    markdown_content,  \* the document being built
    it,                \* position of the iterator of range(len(scenes))
    i,                 \* the variable i (bound by both for loops)
    scene_number,      \* 0 while unbound
    parts,             \* settings[i].split(". ")
    pj,                \* subparts of parts already visited
    written,           \* history: the files write_markdown has written, in order
    files,             \* the output directory: path -> content
    log,               \* history: the errors logged
    \* common_words.py
    cpc,               \* position of read_csv_files
    folder,            \* os.listdir(folder_path), in its order: [name, rows]
    fpos,              \* files of the listing already visited
    rpos,              \* rows of the open file already read
    word_counts,       \* the defaultdict(int), as a list of [word, count]
    printed            \* history: the warnings printed

csvVars == <<cpc, folder, fpos, rpos, word_counts, printed>>

pipeVars == <<pc, rows, am, tagArg, tags, idx, chapters, ret, ci, chapter_key,
              markdown_content, it, i, scene_number, parts, pj, written, files, log>>

vars == <<pipeVars, csvVars>>

\* what no step of excel_to_markdown.py changes: its inputs, and the state
\* of the other script
mainVars == <<rows, am, tagArg, csvVars>>
parseVars == <<idx, chapters, ret>>
genVars == <<ci, chapter_key, markdown_content, it, i, scene_number, parts, pj>>
outVars == <<written, files>>

NoKey == Key("none", "")
EmptyDict == [order |-> <<>>, data |-> <<>>]

InitRest ==
    /\ pc = "args"
    /\ tags = Absent
    /\ idx = 0
    /\ chapters = EmptyDict
    /\ ret = "unset"
    /\ ci = 0
    /\ chapter_key = NoKey
    /\ markdown_content = <<>>
    /\ it = 0
    /\ i = 0
    /\ scene_number = 0
    /\ parts = <<>>
    /\ pj = 0
    /\ written = <<>>
    /\ files = <<>>
    /\ log = <<>>

InitCsvRest ==
    /\ cpc = "listdir"
    /\ fpos = 0
    /\ rpos = 0
    /\ word_counts = <<>>
    /\ printed = <<>>

\* the pipeline runs: every sheet of at most MaxRows rows of RowSet
Init ==
    /\ rows \in SeqsUpTo(RowSet, MaxRows)
    /\ am \in BOOLEAN
    /\ tagArg \in {Absent, Given(TagsAB)}
    /\ InitRest
    /\ folder = <<>>
    /\ InitCsvRest

\* the location runs: one row, with every location string of LocStrings or a
\* blank location, and the sheet of three rows of chapter '1' at Forest
InitLoc ==
    /\ rows \in {<<Row(Key("str", "1"), loc, 1)>> : loc \in LocStrings \cup {NaN}}
               \cup {[n \in 1..3 |-> Row(Key("str", "1"), Forest, 1)]}
    /\ am \in BOOLEAN
    /\ tagArg = Absent
    /\ InitRest
    /\ folder = <<>>
    /\ InitCsvRest

\* "a - b. a - b - a": two segments with sub-location parts, one part in the
\* first and two in the second
TwoSegments == <<"a", " ", "-", " ", "b", ".", " ",
                 "a", " ", "-", " ", "b", " ", "-", " ", "a">>
\* "a b": no separator
Plain == <<"a", " ", "b">>

\* the rows of the scene runs
RowSetScenes ==
    {Row(Key("str", "1"), loc, v) : loc \in {Forest, TwoSegments, Plain}, v \in Variants}
    \cup {Row(Key("str", "2"), TwoSegments, 1), Row(Key("str", "2"), NaN, 2)}

\* the scene runs: every sheet of at most MaxRows rows of RowSetScenes
InitScenes ==
    /\ rows \in SeqsUpTo(RowSetScenes, MaxRows)
    /\ am \in BOOLEAN
    /\ tagArg = Absent
    /\ InitRest
    /\ folder = <<>>
    /\ InitCsvRest

\* the tag runs: every --tags value of at most MaxTagLen characters, or none
InitTags ==
    /\ rows \in SeqsUpTo({Row(Key("str", "1"), Forest, 1),
                          Row(Key("str", "2"), NaN, 2)}, 2)
    /\ am \in BOOLEAN
    /\ tagArg \in {Absent} \cup {Given(v) : v \in TagStrings(MaxTagLen)}
    /\ InitRest
    /\ folder = <<>>
    /\ InitCsvRest

(***************************************************************************)
(* main: the command line.                                                 *)
(***************************************************************************)
\* parse_items(value)
parse_items(value) ==
    LET items == Split(value, Comma) IN
    [k \in 1..Len(items) |-> Strip(items[k])]

ParseArgs ==
    /\ pc = "args"
    /\ tags' = IF tagArg.present
               THEN [present |-> TRUE, value |-> parse_items(tagArg.value)]
               ELSE Absent
    /\ pc' = "parse"
    /\ UNCHANGED <<mainVars, parseVars, genVars, outVars, log>>

(***************************************************************************)
(* parse_scenes.                                                           *)
(***************************************************************************)
NewChapter ==
    [scenes |-> <<>>, settings |-> <<>>, scene_counter |-> 1, day |-> <<>>,
     POV |-> "", description |-> "", time |-> <<>>, weather |-> <<>>,
     descriptions |-> <<>>, uniform |-> <<>>, arc |-> "1", week |-> <<>>,
     temperature |-> ""]

HasKey(d, k) == \E n \in 1..Len(d.order) : d.order[n] = k
Get(d, k) == d.data[CHOOSE n \in 1..Len(d.order) : d.order[n] = k]

\* d[k] = v, a new key going last
Put(d, k, v) ==
    IF HasKey(d, k)
    THEN [d EXCEPT !.data =
            [n \in 1..Len(d.order) |-> IF d.order[n] = k THEN v ELSE d.data[n]]]
    ELSE [order |-> Append(d.order, k), data |-> Append(d.data, v)]

\* (mutant) the aggregate is created anew for every row
AddRowAnew(d, row) ==
    LET c == NewChapter IN
    Put(d, row.Chapter,
        [c EXCEPT !.scenes = Append(c.scenes, c.scene_counter),
                  !.arc = row.Arc,
                  !.scene_counter = c.scene_counter + 1,
                  !.day = Append(c.day, row.Day),
                  !.settings = Append(c.settings, row.Location),
                  !.uniform = Append(c.uniform, row.Uniform),
                  !.weather = Append(c.weather, row.Weather),
                  !.time = Append(c.time, row.Time),
                  !.descriptions = Append(c.descriptions, row.Description),
                  !.POV = row.POV,
                  !.temperature = row.Temperature,
                  !.week = Append(c.week, row.Week)])

\* (mutant) the week is not appended
AddRowNoWeek(d, row) ==
    LET c == IF HasKey(d, row.Chapter) THEN Get(d, row.Chapter) ELSE NewChapter IN
    Put(d, row.Chapter,
        [c EXCEPT !.scenes = Append(c.scenes, c.scene_counter),
                  !.arc = row.Arc,
                  !.scene_counter = c.scene_counter + 1,
                  !.day = Append(c.day, row.Day),
                  !.settings = Append(c.settings, row.Location),
                  !.uniform = Append(c.uniform, row.Uniform),
                  !.weather = Append(c.weather, row.Weather),
                  !.time = Append(c.time, row.Time),
                  !.descriptions = Append(c.descriptions, row.Description),
                  !.POV = row.POV,
                  !.temperature = row.Temperature])

\* (mutant) POV and temperature are set when the aggregate is created only
AddRowFirstWins(d, row) ==
    LET fresh == ~HasKey(d, row.Chapter)
        c == IF fresh THEN NewChapter ELSE Get(d, row.Chapter) IN
    Put(d, row.Chapter,
        [c EXCEPT !.scenes = Append(c.scenes, c.scene_counter),
                  !.arc = row.Arc,
                  !.scene_counter = c.scene_counter + 1,
                  !.day = Append(c.day, row.Day),
                  !.settings = Append(c.settings, row.Location),
                  !.uniform = Append(c.uniform, row.Uniform),
                  !.weather = Append(c.weather, row.Weather),
                  !.time = Append(c.time, row.Time),
                  !.descriptions = Append(c.descriptions, row.Description),
                  !.POV = IF fresh THEN row.POV ELSE c.POV,
                  !.temperature = IF fresh THEN row.Temperature ELSE c.temperature,
                  !.week = Append(c.week, row.Week)])

\* the body of the loop over df.iterrows(), for one row
AddRow(d, row) ==
    LET c == IF HasKey(d, row.Chapter) THEN Get(d, row.Chapter) ELSE NewChapter IN
    Put(d, row.Chapter,
        [c EXCEPT !.scenes = Append(c.scenes, c.scene_counter),
                  !.arc = row.Arc,
                  !.scene_counter = c.scene_counter + 1,
                  !.day = Append(c.day, row.Day),
                  !.settings = Append(c.settings, row.Location),
                  !.uniform = Append(c.uniform, row.Uniform),
                  !.weather = Append(c.weather, row.Weather),
                  !.time = Append(c.time, row.Time),
                  !.descriptions = Append(c.descriptions, row.Description),
                  !.POV = row.POV,
                  !.temperature = row.Temperature,
                  !.week = Append(c.week, row.Week)])

ParseRow ==
    /\ pc = "parse"
    /\ idx < Len(rows)
    /\ chapters' = AddRow(chapters, rows[idx + 1])
    /\ idx' = idx + 1
    /\ UNCHANGED <<pc, mainVars, tags, ret, genVars, outVars, log>>

\* (mutant) the handler returns the chapters aggregated so far
ParseRaisePartial ==
    /\ pc = "parse"
    /\ idx < Len(rows)
    /\ log' = Append(log, <<"parse_error">>)
    /\ ret' = "dict"
    /\ pc' = "generate"
    /\ UNCHANGED <<mainVars, tags, idx, chapters, genVars, outVars>>

\* an exception in the loop body (a field access that fails): the handler
\* prints and logs it, and parse_scenes returns None
ParseRaise ==
    /\ pc = "parse"
    /\ idx < Len(rows)
    /\ log' = Append(log, <<"parse_error">>)
    /\ ret' = "None"
    /\ pc' = "generate"
    /\ UNCHANGED <<mainVars, tags, idx, chapters, genVars, outVars>>

ParseReturn ==
    /\ pc = "parse"
    /\ idx = Len(rows)
    /\ ret' = "dict"
    /\ pc' = "generate"
    /\ UNCHANGED <<mainVars, tags, idx, chapters, genVars, outVars, log>>

(***************************************************************************)
(* generate_markdown_content.                                              *)
(***************************************************************************)
\* len(chapters) in the first logging call, outside the try: a TypeError
\* on None, which nothing catches
GenerateEnter ==
    /\ pc = "generate"
    /\ pc' = IF ret = "None" THEN "crashed" ELSE "chapter"
    /\ ci' = 0
    /\ UNCHANGED <<mainVars, tags, parseVars, chapter_key, markdown_content,
                   it, i, scene_number, parts, pj, outVars, log>>

\* The except clause around the loop over the chapters: its message formats
\* chapter_key and scene_number, so it raises in turn (UnboundLocalError,
\* uncaught) while scene_number is unbound; otherwise it logs, and
\* generate_markdown_content returns.
Handler(key, number) ==
    IF number = 0
    THEN pc' = "crashed" /\ log' = log
    ELSE /\ pc' = "main_end"
         /\ log' = Append(log, <<"generate_error", key, number>>)

\* (mutant) the tags line is left empty
add_metadata_notags(content, arc, pov, tagtext) ==
    content \o <<(<<"---">>), (<<"created">>), (<<"generated_by">>),
                 (<<"tags", <<>>>>), (<<"meta_POV", pov>>), (<<"Arc", arc>>),
                 (<<"---">>), (<<"blank">>)>>

add_metadata(content, arc, pov, tagtext) ==
    content \o <<(<<"---">>), (<<"created">>), (<<"generated_by">>),
                 (<<"tags", tagtext>>), (<<"meta_POV", pov>>), (<<"Arc", arc>>),
                 (<<"---">>), (<<"blank">>)>>

\* the head of the loop over chapters.items(), down to "## Scenes"
ChapterBegin ==
    /\ pc = "chapter"
    /\ ci < Len(chapters.order)
    /\ chapter_key' = chapters.order[ci + 1]
    /\ LET chapter_data == chapters.data[ci + 1] IN
       \/ /\ am
          /\ ~tags.present            \* ", ".join(None): TypeError
          /\ markdown_content' = <<>>
          /\ UNCHANGED <<it, i, scene_number, parts, pj>>
          /\ Handler(chapters.order[ci + 1], scene_number)
       \/ /\ am => tags.present
          /\ markdown_content' =
                (IF am
                 THEN add_metadata(<<>>, chapter_data.arc, chapter_data.POV,
                                   Join(tags.value, CommaSpace))
                 ELSE <<>>)
                \o <<(<<"chapter", Fmt(chapter_key')>>), (<<"scenes_h">>)>>
          /\ it' = 0
          /\ pc' = "scene"
          /\ UNCHANGED <<i, scene_number, parts, pj, log>>
    /\ UNCHANGED <<mainVars, tags, parseVars, ci, outVars>>

ChapterLoopEnd ==
    /\ pc = "chapter"
    /\ ci = Len(chapters.order)
    /\ pc' = "main_end"
    /\ UNCHANGED <<mainVars, tags, parseVars, genVars, outVars, log>>

\* (mutant) the time is read at i - 1, which is the last one for scene 0
SceneFieldsTimeBefore(chapter_data, n) ==
    <<(<<"scene", n + 1>>),
      (<<"POV", chapter_data.POV>>),
      (<<"time", chapter_data.time[IF n = 0 THEN Len(chapter_data.time) ELSE n]>>),
      (<<"day", chapter_data.day[n + 1]>>),
      (<<"week", chapter_data.week[n + 1]>>),
      (<<"temp", chapter_data.temperature>>),
      (<<"weather", chapter_data.weather[n + 1]>>),
      (<<"uniform", chapter_data.uniform[n + 1]>>),
      (<<"description", chapter_data.descriptions[n + 1]>>),
      (<<"setting_h">>)>>

\* the labelled fields of scene i (0-based)
SceneFields(chapter_data, n) ==
    <<(<<"scene", n + 1>>),
      (<<"POV", chapter_data.POV>>),
      (<<"time", chapter_data.time[n + 1]>>),
      (<<"day", chapter_data.day[n + 1]>>),
      (<<"week", chapter_data.week[n + 1]>>),
      (<<"temp", chapter_data.temperature>>),
      (<<"weather", chapter_data.weather[n + 1]>>),
      (<<"uniform", chapter_data.uniform[n + 1]>>),
      (<<"description", chapter_data.descriptions[n + 1]>>),
      (<<"setting_h">>)>>

\* (mutant) the location is split on "."
SplitSettingOnDot(setting) == Split(setting, <<".">>)

\* settings[i].split(". ")
SplitSetting(setting) == Split(setting, DotSpace)

\* for i in range(len(scenes)): the fields, then settings[i].split(". ")
SceneBegin ==
    /\ pc = "scene"
    /\ LET chapter_data == chapters.data[ci + 1] IN
       /\ it < Len(chapter_data.scenes)
       /\ i' = it
       /\ it' = it + 1
       /\ scene_number' = i' + 1
       /\ markdown_content' = markdown_content \o SceneFields(chapter_data, i')
       /\ IF chapter_data.settings[i' + 1] = NaN
          THEN /\ UNCHANGED <<parts, pj>>      \* AttributeError: no .split
               /\ Handler(chapter_key, it + 1)
          ELSE /\ parts' = SplitSetting(chapter_data.settings[i' + 1])
               /\ pj' = 0
               /\ pc' = "subpart"
               /\ log' = log
    /\ UNCHANGED <<mainVars, tags, parseVars, ci, chapter_key, outVars>>

\* (mutant) a sub-location part is one bullet, not split on ", "
RECURSIVE MinLocsUnsplit(_, _)
MinLocsUnsplit(subsubparts, first) ==
    IF first > Len(subsubparts) THEN <<>>
    ELSE <<(<<"b2", subsubparts[first]>>)>> \o MinLocsUnsplit(subsubparts, first + 1)

\* the bullets of the sub-location parts first..Len(subsubparts) (1-based)
RECURSIVE MinLocs(_, _)
MinLocs(subsubparts, first) ==
    IF first > Len(subsubparts) THEN <<>>
    ELSE LET min_locs == Split(subsubparts[first], CommaSpace) IN
         [k \in 1..Len(min_locs) |-> <<"b2", min_locs[k]>>]
         \o MinLocs(subsubparts, first + 1)

\* for subpart in parts: the major location, then the inner loop, which
\* binds i again
Subpart ==
    /\ pc = "subpart"
    /\ pj < Len(parts)
    /\ LET subsubparts == Split(parts[pj + 1], SpaceDashSpace) IN
       /\ markdown_content' =
             markdown_content \o <<(<<"b1", subsubparts[1]>>)>>
                              \o MinLocs(subsubparts, 2)
       /\ i' = IF Len(subsubparts) > 1 THEN Len(subsubparts) - 1 ELSE i
    /\ pj' = pj + 1
    /\ UNCHANGED <<pc, mainVars, tags, parseVars, ci, chapter_key, it,
                   scene_number, parts, outVars, log>>

SubpartLoopEnd ==
    /\ pc = "subpart"
    /\ pj = Len(parts)
    /\ markdown_content' = Append(markdown_content, <<"blank">>)
    /\ pc' = "scene"
    /\ UNCHANGED <<mainVars, tags, parseVars, ci, chapter_key, it, i,
                   scene_number, parts, pj, outVars, log>>

SceneLoopEnd ==
    /\ pc = "scene"
    /\ it = Len(chapters.data[ci + 1].scenes)
    /\ pc' = "write"
    /\ UNCHANGED <<mainVars, tags, parseVars, genVars, outVars, log>>

(***************************************************************************)
(* write_markdown.                                                         *)
(***************************************************************************)
\* (mutant) the file name without the chapter key
PathOfNoKey(key) == "Chapter"

\* the file name "Chapter <key>.md" under output_dir
PathOf(key) == Fmt(key)

HasFile(fs, path) == \E n \in 1..Len(fs) : fs[n].path = path

\* open(path, 'w') and write: the file is created or replaced
WriteFile(fs, path, content) ==
    IF HasFile(fs, path)
    THEN [n \in 1..Len(fs) |->
            IF fs[n].path = path THEN [path |-> path, content |-> content]
            ELSE fs[n]]
    ELSE Append(fs, [path |-> path, content |-> content])

\* write_markdown("Chapter <key>", output_dir, markdown_content), called at
\* the end of the chapter's loop body.  The file system decides: makedirs
\* raises (outside write_markdown's try, so the exception reaches the
\* handler of generate_markdown_content), or open/write raises (caught and
\* logged by write_markdown), or the file is written.
WriteMarkdown ==
    /\ pc = "write"
    /\ \/ /\ UNCHANGED <<written, files, ci>>
          /\ Handler(chapter_key, scene_number)
       \/ /\ log' = Append(log, <<"write_error", PathOf(chapter_key)>>)
          /\ UNCHANGED <<written, files>>
          /\ ci' = ci + 1
          /\ pc' = "chapter"
       \/ /\ files' = WriteFile(files, PathOf(chapter_key), markdown_content)
          /\ written' = Append(written,
                [key |-> chapter_key, path |-> PathOf(chapter_key),
                 content |-> markdown_content])
          /\ ci' = ci + 1
          /\ pc' = "chapter"
          /\ log' = log
    /\ UNCHANGED <<mainVars, tags, parseVars, chapter_key, markdown_content,
                   it, i, scene_number, parts, pj>>

(***************************************************************************)
(* main: after generate_markdown_content has returned.                     *)
(***************************************************************************)
\* "Script complete."
MainEnd ==
    /\ pc = "main_end"
    /\ pc' = "done"
    /\ UNCHANGED <<mainVars, tags, parseVars, genVars, outVars, log>>

Next ==
    \/ ParseArgs
    \/ ParseRow
    \/ ParseRaise
    \/ ParseReturn
    \/ GenerateEnter
    \/ ChapterBegin
    \/ ChapterLoopEnd
    \/ SceneBegin
    \/ Subpart
    \/ SubpartLoopEnd
    \/ SceneLoopEnd
    \/ WriteMarkdown
    \/ MainEnd

Spec == Init /\ [][Next]_vars
SpecLoc == InitLoc /\ [][Next]_vars
SpecTags == InitTags /\ [][Next]_vars
SpecScenes == InitScenes /\ [][Next]_vars

(***************************************************************************)
(* common_words.py: read_csv_files.                                        *)
(***************************************************************************)
\* str.endswith
EndsWith(s, suffix) ==
    /\ Len(s) >= Len(suffix)
    /\ Slice(s, Len(s) - Len(suffix) + 1, Len(s)) = suffix

DotCsv == <<".", "c", "s", "v">>

Digits == {"0", "1", "2", "3", "4", "5", "6", "7", "8", "9"}
DigitValue(c) ==
    CASE c = "0" -> 0 [] c = "1" -> 1 [] c = "2" -> 2 [] c = "3" -> 3
      [] c = "4" -> 4 [] c = "5" -> 5 [] c = "6" -> 6 [] c = "7" -> 7
      [] c = "8" -> 8 [] c = "9" -> 9

RECURSIVE Decimal(_)
Decimal(ds) ==
    IF Len(ds) = 0 THEN 0
    ELSE 10 * Decimal(Slice(ds, 1, Len(ds) - 1)) + DigitValue(ds[Len(ds)])

\* int(text): blanks around are ignored, then an optional sign and at least
\* one digit; anything else is a ValueError (ok is FALSE)
ParseInt(text) ==
    LET t == Strip(text)
        signed == Len(t) > 0 /\ t[1] \in {"+", "-"}
        ds == IF signed THEN Tail(t) ELSE t
        ok == Len(ds) > 0 /\ \A k \in 1..Len(ds) : ds[k] \in Digits IN
    [ok |-> ok,
     value |-> IF ~ok THEN 0
               ELSE IF signed /\ t[1] = "-" THEN 0 - Decimal(ds) ELSE Decimal(ds)]

\* word_counts[word] (0 for a word that is no key)
CountOf(wc, word) ==
    IF \E n \in 1..Len(wc) : wc[n].word = word
    THEN wc[CHOOSE n \in 1..Len(wc) : wc[n].word = word].count
    ELSE 0

\* word_counts[word] += count
AddCount(wc, word, count) ==
    IF \E n \in 1..Len(wc) : wc[n].word = word
    THEN [n \in 1..Len(wc) |->
            IF wc[n].word = word
            THEN [word |-> word, count |-> wc[n].count + count] ELSE wc[n]]
    ELSE Append(wc, [word |-> word, count |-> count])

\* for filename in os.listdir(folder_path): a .csv file is opened, any other
\* file is passed over
ListNext ==
    /\ cpc = "listdir"
    /\ fpos < Len(folder)
    /\ \/ /\ EndsWith(folder[fpos + 1].name, DotCsv)
          /\ rpos' = 0
          /\ cpc' = "reader"
          /\ fpos' = fpos
       \/ /\ ~EndsWith(folder[fpos + 1].name, DotCsv)
          /\ fpos' = fpos + 1
          /\ UNCHANGED <<rpos, cpc>>
    /\ UNCHANGED <<pipeVars, folder, word_counts, printed>>

\* (mutant) a count that does not parse ends the reading of the file
ReadRowBreak ==
    /\ cpc = "reader"
    /\ rpos < Len(folder[fpos + 1].rows)
    /\ LET row == folder[fpos + 1].rows[rpos + 1] IN
       IF Len(row) = 2
       THEN LET count == ParseInt(row[2]) IN
            IF count.ok
            THEN /\ word_counts' = AddCount(word_counts, row[1], count.value)
                 /\ printed' = printed
                 /\ rpos' = rpos + 1
            ELSE /\ printed' = Append(printed, <<row[1], folder[fpos + 1].name>>)
                 /\ word_counts' = word_counts
                 /\ rpos' = Len(folder[fpos + 1].rows)
       ELSE /\ UNCHANGED <<word_counts, printed>>
            /\ rpos' = rpos + 1
    /\ UNCHANGED <<pipeVars, cpc, folder, fpos>>

\* for row in reader: a row of two cells is counted, or skipped with a
\* warning when its count is no integer; a row of another length is passed over
ReadRow ==
    /\ cpc = "reader"
    /\ rpos < Len(folder[fpos + 1].rows)
    /\ LET row == folder[fpos + 1].rows[rpos + 1] IN
       IF Len(row) = 2
       THEN LET count == ParseInt(row[2]) IN
            IF count.ok
            THEN /\ word_counts' = AddCount(word_counts, row[1], count.value)
                 /\ printed' = printed
            ELSE /\ printed' = Append(printed, <<row[1], folder[fpos + 1].name>>)
                 /\ word_counts' = word_counts
       ELSE UNCHANGED <<word_counts, printed>>
    /\ rpos' = rpos + 1
    /\ UNCHANGED <<pipeVars, cpc, folder, fpos>>

\* the reader is exhausted: the file is closed, the next file name follows
FileEnd ==
    /\ cpc = "reader"
    /\ rpos = Len(folder[fpos + 1].rows)
    /\ fpos' = fpos + 1
    /\ cpc' = "listdir"
    /\ UNCHANGED <<pipeVars, folder, rpos, word_counts, printed>>

\* return word_counts
ReadReturn ==
    /\ cpc = "listdir"
    /\ fpos = Len(folder)
    /\ cpc' = "returned"
    /\ UNCHANGED <<pipeVars, folder, fpos, rpos, word_counts, printed>>

NextCsv ==
    \/ ListNext
    \/ ReadRow
    \/ FileEnd
    \/ ReadReturn

\* the folders of the csv runs
WordW == <<"w">>
WordV == <<"v">>
CsvRows == {<<WordW, <<"1">>>>, <<WordW, <<"x">>>>, <<WordV, <<"2">>>>,
            <<WordW, <<"1">>, <<"1">>>>}
FileNames == {<<"a">> \o DotCsv, <<"b">> \o DotCsv, <<"a", "c", "s", "v">>}

\* every listing of at most f files, named differently out of names, with at
\* most t rows in all
RECURSIVE Folders(_, _, _)
Folders(f, t, names) ==
    {<<>>} \cup
    (IF f = 0 THEN {}
     ELSE UNION {{<<[name |-> nm, rows |-> rs]>> \o rest :
                    rest \in Folders(f - 1, t - Len(rs), names \ {nm})} :
                 nm \in names, rs \in SeqsUpTo(CsvRows, t)})

CountChars == {"1", "2", "-", "+", " ", "x"}
RECURSIVE CountStrings(_)
CountStrings(n) ==
    IF n = 0 THEN {<<>>}
    ELSE LET shorter == CountStrings(n - 1) IN
         shorter \cup {s \o <<c>> : s \in shorter, c \in CountChars}

\* the csv runs: every folder within the bounds, and the one-row file with
\* every count cell of at most MaxCountLen characters, with a one-cell row
\* and with an empty row
InitCsv ==
    /\ folder \in Folders(MaxFiles, MaxCsvRows, FileNames)
                 \cup {<<[name |-> <<"a">> \o DotCsv, rows |-> <<r>>]>> :
                         r \in {<<WordW, c>> : c \in CountStrings(MaxCountLen)}
                                \cup {<<WordW>>, <<>>}}
    /\ InitCsvRest
    /\ rows = <<>>
    /\ am = FALSE
    /\ tagArg = Absent
    /\ InitRest

SpecCsv == InitCsv /\ [][NextCsv]_vars

(***************************************************************************)
(* Reading the input and the output back, for the properties.              *)
(***************************************************************************)
\* the rows carrying a chapter key, in input order
RowsOf(rs, key) == SelectSeq(rs, LAMBDA r : r.Chapter = key)
KeysIn(rs) == {rs[n].Chapter : n \in 1..Len(rs)}
FirstRows(n) == Slice(rows, 1, n)
LastRowOf(rs, key) == RowsOf(rs, key)[Len(RowsOf(rs, key))]

\* the lines of a kind, in order
OfKind(content, kind) == SelectSeq(content, LAMBDA l : l[1] = kind)
\* the positions of the scene headings
ScenePositions(content) ==
    SelectSeq([n \in 1..Len(content) |-> n], LAMBDA n : content[n][1] = "scene")
SceneCount(content) == Len(ScenePositions(content))
\* the k-th scene section: from its heading to the line before the next one
Section(content, k) ==
    LET pos == ScenePositions(content) IN
    Slice(content, pos[k], IF k < Len(pos) THEN pos[k + 1] - 1 ELSE Len(content))
\* the text of the (first) line of a kind
FieldOf(lines, kind) == OfKind(lines, kind)[1][2]
\* the bullets of a section, in order
Bullets(lines) == SelectSeq(lines, LAMBDA l : l[1] \in {"b1", "b2"})

FilePaths == {files[n].path : n \in 1..Len(files)}
WrittenKeys == {written[n].key : n \in 1..Len(written)}
Logged(kind) == \E n \in 1..Len(log) : log[n][1] = kind
Terminal == pc \in {"done", "crashed"}

(***************************************************************************)
(* C1.  Documents and chapter keys.                                        *)
(***************************************************************************)
Labels(rs) == {Fmt(k) : k \in KeysIn(rs)}

C2_SceneSections ==
    \A n \in 1..Len(written) :
        LET content == written[n].content
            mine == RowsOf(rows, written[n].key) IN
        /\ Len(mine) >= 1
        /\ SceneCount(content) = Len(mine)
        /\ \A k \in 1..Len(mine) :
              /\ Section(content, k)[1] = <<"scene", k>>
              /\ FieldOf(Section(content, k), "description") = mine[k].Description

C2_Witness ==
    /\ pc = "done"
    /\ Len(rows) = 3
    /\ rows[1].Chapter = rows[3].Chapter
    /\ rows[2].Chapter # rows[1].Chapter
    /\ rows[1].Description # rows[3].Description
    /\ \E n \in 1..Len(written) :
          /\ written[n].key = rows[1].Chapter
          /\ SceneCount(written[n].content) = 2

(***************************************************************************)
(* C3.  Failures while rendering.                                          *)
(***************************************************************************)
\* the chapter at position n of the dict was written, or its own failure
\* was logged
Attempted(n) ==
    LET key == chapters.order[n] IN
    \/ key \in WrittenKeys
    \/ \E m \in 1..Len(log) :
          \/ log[m][1] = "generate_error" /\ log[m][2] = key
          \/ log[m][1] = "write_error" /\ log[m][2] = PathOf(key)

\* C3: a failure while rendering or writing one chapter is logged, and every
\* chapter that comes later in the dict is still rendered and written.
C3_FailuresIsolated ==
    (pc = "done" /\ ret = "dict") =>
        \A n \in 1..Len(chapters.order) : Attempted(n)

(***************************************************************************)
(* C4.  Failure while aggregating.                                         *)
(***************************************************************************)
\* C4: once parse_scenes has raised, no document is ever written and the run
\* does not reach "Script complete".
C4_NoWriteAfterParseError ==
    Logged("parse_error") =>
        /\ written = <<>>
        /\ files = <<>>
        /\ pc \in {"generate", "crashed"}

C4_Witness ==
    /\ Logged("parse_error")
    /\ pc = "crashed"
    /\ Len(rows) = 3
    /\ idx = 2
    /\ rows[1].Chapter # rows[2].Chapter
    /\ Len(chapters.order) = 2

(***************************************************************************)
(* C8.  The aggregate while parse_scenes runs.                             *)
(***************************************************************************)
\* C8: after any prefix of the rows, every chapter aggregate has scenes,
\* day, settings, uniform, weather, time, descriptions and week of one
\* length, the number of rows seen with its key; scenes is 1..that number
\* and scene_counter one more.  Every key seen has an aggregate.
C8_EqualLengths ==
    /\ KeysIn(FirstRows(idx)) = {chapters.order[n] : n \in 1..Len(chapters.order)}
    /\ \A n \in 1..Len(chapters.order) :
          LET c == chapters.data[n]
              N == Len(RowsOf(FirstRows(idx), chapters.order[n])) IN
          /\ c.scenes = [k \in 1..N |-> k]
          /\ c.scene_counter = N + 1
          /\ Len(c.day) = N
          /\ Len(c.settings) = N
          /\ Len(c.uniform) = N
          /\ Len(c.weather) = N
          /\ Len(c.time) = N
          /\ Len(c.descriptions) = N
          /\ Len(c.week) = N

C8_Witness ==
    /\ pc = "parse"
    /\ Len(rows) = 3
    /\ idx = 2
    /\ Len(chapters.order) = 1
    /\ Len(chapters.data[1].week) = 2

(***************************************************************************)
(* C9.  Last row wins.                                                     *)
(***************************************************************************)
\* C9: after aggregation every chapter's POV, temperature and arc are those
\* of the last row carrying its key, and every scene section of the
\* chapter's document shows that POV and that temperature.
C9_LastRowWins ==
    /\ ret = "dict" =>
          \A n \in 1..Len(chapters.order) :
              LET last == LastRowOf(rows, chapters.order[n]) IN
              /\ chapters.data[n].POV = last.POV
              /\ chapters.data[n].temperature = last.Temperature
              /\ chapters.data[n].arc = last.Arc
    /\ \A n \in 1..Len(written) :
          LET content == written[n].content
              last == LastRowOf(rows, written[n].key) IN
          \A k \in 1..SceneCount(content) :
              /\ OfKind(Section(content, k), "POV") = <<(<<"POV", last.POV>>)>>
              /\ OfKind(Section(content, k), "temp") = <<(<<"temp", last.Temperature>>)>>

C9_Witness ==
    /\ pc = "done"
    /\ Len(rows) = 3
    /\ rows[1].Chapter = rows[2].Chapter
    /\ rows[3].Chapter # rows[1].Chapter
    /\ rows[1].POV # rows[2].POV
    /\ rows[3].POV # rows[2].POV
    /\ \E n \in 1..Len(written) :
          /\ written[n].key = rows[1].Chapter
          /\ SceneCount(written[n].content) = 2
          /\ FieldOf(Section(written[n].content, 1), "POV") = rows[2].POV

(***************************************************************************)
(* C5.  The metadata block.                                                *)
(***************************************************************************)
MetaKinds == <<"---", "created", "generated_by", "tags", "meta_POV", "Arc",
               "---", "blank">>
MetaKindSet == {MetaKinds[k] : k \in 1..Len(MetaKinds)} \ {"blank"}

\* the document opens with the block
HasMetaBlock(content) ==
    /\ Len(content) >= Len(MetaKinds)
    /\ \A k \in 1..Len(MetaKinds) : content[k][1] = MetaKinds[k]
\* the document has no line of the block
NoMetaLine(content) == \A k \in 1..Len(content) : content[k][1] \notin MetaKindSet

\* every document written has the block iff metadata was requested, and the
\* tags line of the block reads back, split on ", ", as the tag list
MetaIffRequested ==
    \A n \in 1..Len(written) :
        LET content == written[n].content IN
        /\ am <=> HasMetaBlock(content)
        /\ ~am <=> NoMetaLine(content)
        /\ am => /\ tags.present
                 /\ Len(OfKind(content, "tags")) = 1
                 /\ Split(FieldOf(content, "tags"), CommaSpace) = tags.value

\* C5 (as stated): metadata block iff requested, with the tag list joined by
\* ", "; and a run that requests metadata and logs no error produces the
\* document of every chapter, with or without a tag list.
C5_MetadataNeverPrevents ==
    /\ MetaIffRequested
    /\ (Terminal /\ am /\ log = <<>>) => WrittenKeys = KeysIn(rows)

\* C5 (amended): metadata block iff requested, with the tag list joined by
\* ", "; a run that requests metadata with a tag list and logs no error
\* produces the document of every chapter, and a run that requests metadata
\* without a tag list produces no document at all.
C5_MetadataNeedsTags ==
    /\ MetaIffRequested
    /\ (Terminal /\ am /\ tagArg.present /\ log = <<>>) =>
            (pc = "done" /\ WrittenKeys = KeysIn(rows))
    /\ (am /\ ~tagArg.present) => (written = <<>> /\ (pc = "done" => rows = <<>>))

C5_Witness ==
    /\ pc = "done"
    /\ am
    /\ tagArg.present
    /\ Len(tags.value) = 2
    /\ tags.value[1] # tags.value[2]
    /\ Len(written) >= 1
    /\ HasMetaBlock(written[1].content)

(***************************************************************************)
(* C6, C7.  The Setting block of a scene.                                  *)
(***************************************************************************)
Contains(s, sep) == \E k \in 1..Len(s) : OccursAt(s, sep, k)

\* the location of the k-th scene of the n-th document written
LocationOf(n, k) == RowsOf(rows, written[n].key)[k].Location
\* the bullets of its Setting block
SettingOf(n, k) == Bullets(Section(written[n].content, k))

\* C6 (as stated): a location with neither " - " nor ", " renders as one
\* first-level bullet, the whole string, and nothing else.
C6_OneBullet ==
    \A n \in 1..Len(written) : \A k \in 1..SceneCount(written[n].content) :
        LET loc == LocationOf(n, k) IN
        (~Contains(loc, SpaceDashSpace) /\ ~Contains(loc, CommaSpace))
            => SettingOf(n, k) = <<(<<"b1", loc>>)>>

\* C6 (amended): a location with none of " - ", ", " and ". " renders as one
\* first-level bullet, the whole string, and nothing else.
C6_OneBulletNoDot ==
    \A n \in 1..Len(written) : \A k \in 1..SceneCount(written[n].content) :
        LET loc == LocationOf(n, k) IN
        (/\ ~Contains(loc, SpaceDashSpace)
         /\ ~Contains(loc, CommaSpace)
         /\ ~Contains(loc, DotSpace))
            => SettingOf(n, k) = <<(<<"b1", loc>>)>>

C6_Witness ==
    /\ pc = "done"
    /\ Len(written) = 1
    /\ LocationOf(1, 1) = <<"a", ".", "b", " ">>
    /\ SettingOf(1, 1) = <<(<<"b1", <<"a", ".", "b", " ">>>>)>>

RECURSIVE Flatten(_)
Flatten(ss) == IF Len(ss) = 0 THEN <<>> ELSE ss[1] \o Flatten(Tail(ss))

\* the text of a segment before its first " - "
MajorOf(segment) ==
    IF Contains(segment, SpaceDashSpace)
    THEN Slice(segment, 1, Find(segment, SpaceDashSpace) - 1)
    ELSE segment

\* one first-level bullet, then a second-level bullet for every item of
\* every later " - " part
SegmentBullets(segment) ==
    LET p == Split(segment, SpaceDashSpace) IN
    <<(<<"b1", MajorOf(segment)>>)>>
    \o Flatten([m \in 1..(Len(p) - 1) |->
                  LET items == Split(p[m + 1], CommaSpace) IN
                  [j \in 1..Len(items) |-> <<"b2", items[j]>>]])

ExpectedSetting(loc) ==
    LET segments == Split(loc, DotSpace) IN
    Flatten([m \in 1..Len(segments) |-> SegmentBullets(segments[m])])

\* C7: the Setting block of every scene is, for each ". " segment of its
\* location in order, a first-level bullet with the text before the first
\* " - ", then a second-level bullet for every ", " item of each later " - "
\* part, left to right.
C7_LocationHierarchy ==
    \A n \in 1..Len(written) : \A k \in 1..SceneCount(written[n].content) :
        SettingOf(n, k) = ExpectedSetting(LocationOf(n, k))

\* three rows of chapter '1' at "Forest - Clearing, River"
C7_Witness ==
    /\ pc = "done"
    /\ Len(rows) = 3
    /\ \A m \in 1..3 : rows[m].Chapter = Key("str", "1") /\ rows[m].Location = Forest
    /\ Len(written) = 1
    /\ SceneCount(written[1].content) = 3
    /\ \A k \in 1..3 :
          SettingOf(1, k) = <<(<<"b1", <<"F">>>>), (<<"b2", <<"C">>>>), (<<"b2", <<"R">>>>)>>

(***************************************************************************)
(* C10.  The word-frequency aggregator.                                    *)
(***************************************************************************)
\* the rows of the .csv files of the folder, each with its file name, in the
\* order read
RECURSIVE CsvRowsRead(_)
CsvRowsRead(fs) ==
    IF Len(fs) = 0 THEN <<>>
    ELSE (IF EndsWith(fs[1].name, DotCsv)
          THEN [k \in 1..Len(fs[1].rows) |-> [name |-> fs[1].name, row |-> fs[1].rows[k]]]
          ELSE <<>>)
         \o CsvRowsRead(Tail(fs))

WellFormed(r) == Len(r.row) = 2 /\ ParseInt(r.row[2]).ok
IllFormed(r) == Len(r.row) = 2 /\ ~ParseInt(r.row[2]).ok

RECURSIVE SumFor(_, _)
SumFor(rs, word) ==
    IF Len(rs) = 0 THEN 0
    ELSE (IF WellFormed(rs[1]) /\ rs[1].row[1] = word
          THEN ParseInt(rs[1].row[2]).value ELSE 0)
         + SumFor(Tail(rs), word)

WordsIn(rs) == {rs[k].row[1] : k \in {m \in 1..Len(rs) : Len(rs[m].row) >= 1}}

\* C10: when read_csv_files returns, the total of every word is the sum of
\* the counts of its two-cell rows with an integer count, over all .csv
\* files, and one warning has been printed for each two-cell row whose count
\* is no integer, in the order read.
C10_SkipsBadCounts ==
    cpc = "returned" =>
        LET rs == CsvRowsRead(folder)
            bad == SelectSeq(rs, IllFormed) IN
        /\ \A w \in WordsIn(rs) : CountOf(word_counts, w) = SumFor(rs, w)
        /\ \A n \in 1..Len(word_counts) : word_counts[n].word \in WordsIn(rs)
        /\ printed = [k \in 1..Len(bad) |-> <<bad[k].row[1], bad[k].name>>]

\* a bad count between two good ones, in the first of two csv files
C10_Witness ==
    /\ cpc = "returned"
    /\ Len(folder) = 2
    /\ \A n \in 1..2 : EndsWith(folder[n].name, DotCsv)
    /\ folder[1].rows = <<(<<WordW, <<"x">>>>), (<<WordW, <<"1">>>>)>>
    /\ folder[2].rows = <<(<<WordW, <<"1">>>>)>>
    /\ CountOf(word_counts, WordW) = 2
    /\ Len(printed) = 1

(***************************************************************************)
(* C11.  The fields of a scene.                                            *)
(***************************************************************************)
\* the lines of a kind in a section are the one line with this text
Shows(section, kind, text) == OfKind(section, kind) = <<(<<kind, text>>)>>

\* C11: the k-th scene section of every document written shows the time,
\* day, week, weather, uniform, description and location of the k-th row
\* carrying the chapter's key, whatever the sub-location parts of the
\* locations of that row and of the rows before it.
C11_SceneShowsItsRow ==
    \A n \in 1..Len(written) :
        LET content == written[n].content
            mine == RowsOf(rows, written[n].key) IN
        /\ SceneCount(content) = Len(mine)
        /\ \A k \in 1..Len(mine) :
              LET section == Section(content, k) IN
              /\ Shows(section, "time", mine[k].Time)
              /\ Shows(section, "day", mine[k].Day)
              /\ Shows(section, "week", mine[k].Week)
              /\ Shows(section, "weather", mine[k].Weather)
              /\ Shows(section, "uniform", mine[k].Uniform)
              /\ Shows(section, "description", mine[k].Description)
              /\ Bullets(section) = ExpectedSetting(mine[k].Location)

\* three rows of chapter '1', another chapter's row between them; the first
\* two have sub-location parts in two segments and differ in their fields
C11_Witness ==
    /\ pc = "done"
    /\ Len(rows) = 3
    /\ rows[1].Chapter = rows[3].Chapter
    /\ rows[2].Chapter # rows[1].Chapter
    /\ rows[1].Location = TwoSegments
    /\ rows[3].Location = TwoSegments
    /\ rows[1].Time # rows[3].Time
    /\ \E n \in 1..Len(written) :
          /\ written[n].key = rows[1].Chapter
          /\ SceneCount(written[n].content) = 2
          /\ Shows(Section(written[n].content, 2), "time", rows[3].Time)
          /\ Len(Bullets(Section(written[n].content, 2))) = 5

====
